---------------------------- MODULE Spec2Model ----------------------------
(***************************************************************************)
(* humanencoding: binary data <-> dictionary words.                        *)
(* A model of src/humanencoding/encoder.py: the process-wide word list     *)
(* cache, lazily_load_wordlist, encode and decode, with the word list      *)
(* modules (wordlist_v<N>.py) given by their loaded shape.                 *)
(***************************************************************************)
EXTENDS Integers, Sequences, FiniteSets

(***************************************************************************)
(* Program constants (encoder.py:27-32).                                   *)
(***************************************************************************)
DEFAULT_WORDLIST_VERSION == 1
WORDLIST_SIZE == 65536
DEFAULT_MAX_ENCODING_BYTES == 10240
DEFAULT_MAX_DECODING_WORDS == 1024

(***************************************************************************)
(* Bounds of the model.                                                    *)
(***************************************************************************)
\* longest payload handed to encode
MaxLen == 3
\* longest hand-written token list handed to decode
MaxTokens == 4

\* byte values payloads are built from
ByteVals == {0, 255}

(***************************************************************************)
(* Words.  A word is a text: lex says which family the lower-cased text    *)
(* belongs to ("dict": the n-th word of the dictionary the word lists are  *)
(* cut from, in alphabetical order; "null" and "check": the two reserved   *)
(* texts; "other": a text that is in no word list), and upper says whether *)
(* the text as written has upper-case letters.                             *)
(***************************************************************************)
Word(l, k, u) == [lex |-> l, n |-> k, upper |-> u]
DictWord(k) == Word("dict", k, FALSE)
CHECKSUM_WORD == Word("check", 0, FALSE)
PADDING_WORD == Word("null", 0, FALSE)
OtherWord == Word("other", 0, FALSE)

\* str(w).lower()
Lower(w) == [w EXCEPT !.upper = FALSE]

\* the same text written in capitals
Upper(w) == [w EXCEPT !.upper = TRUE]

(***************************************************************************)
(* Bytes, 16-bit chunks and 32-bit values.  A 32-bit value is the set of   *)
(* its one bits (bit 0 the lowest): 2^32 - 1 does not fit a TLC integer.   *)
(***************************************************************************)
RECURSIVE Pow2(_)
Pow2(k) == IF k = 0 THEN 1 ELSE 2 * Pow2(k - 1)

BitOf(x, k) == (x \div Pow2(k)) % 2

BitsOfByte(b) == {k \in 0..7 : BitOf(b, k) = 1}

RECURSIVE SumPow2(_)
SumPow2(S) ==
    IF S = {} THEN 0
    ELSE LET k == CHOOSE x \in S : TRUE IN Pow2(k) + SumPow2(S \ {k})

\* the k-th byte (0 the lowest) of a 32-bit value
ByteOfU32(v, k) == SumPow2({i - 8 * k : i \in v \cap (8 * k)..(8 * k + 7)})

XorU32(a, b) == (a \ b) \cup (b \ a)
ShiftRightU32(a) == {i - 1 : i \in a \ {0}}

\* the reflected CRC-32 polynomial 0xEDB88320
Crc32Poly == {31, 30, 29, 27, 26, 24, 23, 21, 20, 19, 15, 9, 8, 5}

RECURSIVE Crc32Shift(_, _)
Crc32Shift(c, k) ==
    IF k = 0 THEN c
    ELSE Crc32Shift(IF 0 \in c THEN XorU32(ShiftRightU32(c), Crc32Poly)
                               ELSE ShiftRightU32(c), k - 1)

RECURSIVE Crc32Update(_, _)
Crc32Update(c, data) ==
    IF data = <<>> THEN c
    ELSE Crc32Update(Crc32Shift(XorU32(c, BitsOfByte(Head(data))), 8),
                     Tail(data))

\* a checksum that leaves the last byte of the data out
Crc32WithoutLastByte(data) ==
    (0..31) \ Crc32Update(0..31, IF data = <<>> THEN data
                                 ELSE [k \in 1..(Len(data) - 1) |-> data[k]])

\* crc32(data) & 0xffffffff
_crc32(data) == (0..31) \ Crc32Update(0..31, data)

\* pack('<I', v) and unpack('<I', b)[0]
PackU32(v) == [k \in 1..4 |-> ByteOfU32(v, k - 1)]
UnpackU32(b) ==
    UNION {{8 * (k - 1) + i : i \in BitsOfByte(b[k])} : k \in 1..4}

\* unpack('<H', b)[0] and pack('<H', i)
_bytes_to_int(b) == b[1] + 256 * b[2]
_int_to_bytes(i) == <<i % 256, i \div 256>>

\* Python's s[i:j] for 0 <= i <= j, clipped to the sequence
Slice(s, i, j) ==
    LET hi == IF j < Len(s) THEN j ELSE Len(s)
    IN  IF i >= hi THEN <<>> ELSE [k \in 1..(hi - i) |-> s[i + k]]


(***************************************************************************)
(* The word list modules humanencoding/wordlist_v<N>.py, by version:       *)
(*   0  no such module (import_module raises)                              *)
(*   1  a list of 65536 unique words, the dictionary's words 0..65535      *)
(*   2  a list of 65536 unique words, the dictionary's words 1..65536      *)
(*   3  a list one word short                                              *)
(*   4  a module that defines no words attribute                           *)
(*   5  a list of 65536 words in which one word occurs twice               *)
(*   6  a list of 65536 unique words that holds the two reserved texts     *)
(***************************************************************************)
Versions == 0..6

AssetKind(v) ==
    CASE v = 1 -> "valid"
      [] v = 2 -> "valid"
      [] v = 3 -> "short"
      [] v = 4 -> "nowords"
      [] v = 5 -> "duplicate"
      [] v = 6 -> "reserved"
      [] OTHER -> "missing"

\* len(wordlist_module.words)
AssetLen(v) ==
    CASE AssetKind(v) = "short" -> WORDLIST_SIZE - 1
      [] AssetKind(v) \in {"valid", "duplicate", "reserved"} -> WORDLIST_SIZE
      [] OTHER -> 0

\* wordlist_module.words[i]
AssetWord(v, i) ==
    CASE v = 2 -> DictWord(i + 1)
      [] v = 5 /\ i = 255 -> DictWord(254)
      [] v = 6 /\ i = 0 -> CHECKSUM_WORD
      [] v = 6 /\ i = 1 -> PADDING_WORD
      [] OTHER -> DictWord(i)

\* an asset that meets the word table's invariants: 65536 unique words
ValidVersions == {v \in Versions : AssetKind(v) = "valid"}

(***************************************************************************)
(* The objects the global `wordlist` can be bound to: the initial empty    *)
(* list, None, or the words tuple of a word list module.                   *)
(***************************************************************************)
EmptyList == [obj |-> "list", version |-> 0]
None == [obj |-> "None", version |-> 0]
WordsOf(v) == [obj |-> "tuple", version |-> v]

TableLen(t) == IF t.obj = "tuple" THEN AssetLen(t.version) ELSE 0
TableWord(t, i) == AssetWord(t.version, i)
\* the truth value Python gives the object
Truthy(t) == TableLen(t) > 0

\* wordlist.index(word): the first index holding the word, -1 for ValueError
IndexOf(t, w) ==
    LET hits == {i \in {w.n - 1, w.n, w.n + 1} :
                    /\ 0 <= i
                    /\ i < TableLen(t)
                    /\ TableWord(t, i) = w}
    IN  IF hits = {} THEN -1
        ELSE CHOOSE i \in hits : \A j \in hits : i <= j

(***************************************************************************)
(* Exceptions.                                                             *)
(***************************************************************************)
Raise(e, m) == [exc |-> e, msg |-> m]
NoError == Raise("", "")
HumanEncodingError(m) == Raise("HumanEncodingError", m)
\* class ChecksumError(HumanEncodingError)
ChecksumError(m) == Raise("ChecksumError", m)

(***************************************************************************)
(* lazily_load_wordlist(version): the binding of `wordlist` it leaves, the *)
(* exception it raises, and whether it called import_module.               *)
(***************************************************************************)
Loaded(wl, e, i) == [wordlist |-> wl, raised |-> e, imported |-> i]

\* a load that never finds the cache populated
NeverCacheHit(wl) == FALSE

\* `if wordlist: return`
CacheHit(wl) == Truthy(wl)

lazily_load_wordlist(wl, version) ==
    IF CacheHit(wl) THEN Loaded(wl, NoError, FALSE)
    ELSE IF AssetKind(version) = "missing"
    THEN Loaded(wl, HumanEncodingError("Invalid word list module"), TRUE)
    ELSE LET new == IF AssetKind(version) = "nowords" THEN None
                    ELSE WordsOf(version)
         IN  IF ~Truthy(new)
             THEN Loaded(new,
                         HumanEncodingError("Word list module has no words attribute"),
                         TRUE)
             ELSE IF TableLen(new) # WORDLIST_SIZE
             THEN Loaded(new, Raise("NameError", "name 'words' is not defined"), TRUE)
             ELSE Loaded(new, NoError, TRUE)

(***************************************************************************)
(* What a call leaves: the binding of `wordlist`, the exception raised (or *)
(* NoError), whether import_module was called, and the value returned (a   *)
(* token list or a string from encode, a byte string from decode).         *)
(***************************************************************************)
Result(wl, e, i, ws, d) ==
    [wordlist |-> wl, raised |-> e, imported |-> i, words |-> ws, data |-> d,
     text |-> <<>>]

(***************************************************************************)
(* Strings of words.  A string is the sequence of its words and of the     *)
(* spaces between them, a word standing for its run of letters.            *)
(***************************************************************************)
Space == Word(" ", 0, FALSE)

\* ' '.join(encoded_output)
JoinWords(ws) ==
    IF ws = <<>> THEN <<>>
    ELSE [i \in 1..(2 * Len(ws) - 1) |->
             IF i % 2 = 1 THEN ws[(i + 1) \div 2] ELSE Space]

\* words.split()
SplitWords(str) == SelectSeq(str, LAMBDA x : x # Space)

\* what _chunk_to_word has in hand when wordlist[...] raises IndexError
IndexErrorWord == Word("IndexError", 0, FALSE)

_chunk_to_word(wl, chunk) ==
    IF _bytes_to_int(chunk) < TableLen(wl)
    THEN TableWord(wl, _bytes_to_int(chunk))
    ELSE IndexErrorWord

\* a reverse lookup that takes an unknown word for the first word
LenientWordToChunk(wl, word) ==
    IF IndexOf(wl, word) < 0 THEN <<0, 0>> ELSE _int_to_bytes(IndexOf(wl, word))

\* `_int_to_bytes(wordlist.index(word))`, the empty string when index raises
\* ValueError
_word_to_chunk(wl, word) ==
    IF IndexOf(wl, word) < 0 THEN <<>> ELSE _int_to_bytes(IndexOf(wl, word))

Range(s) == {s[i] : i \in 1..Len(s)}

(***************************************************************************)
(* encode(binary_data, version, checksum, return_string=False, max_bytes)  *)
(***************************************************************************)
\* `len(binary_data) > max_bytes`
TooManyBytes(binary_data, max_bytes) == Len(binary_data) > max_bytes

\* the parity test turned around
IsEvenLength(binary_data) == Len(binary_data) % 2 = 0

\* `padded = data_len % 2 == 1`
IsOddLength(binary_data) == Len(binary_data) % 2 = 1

\* `binary_data += b'\0'` when padded
PaddedData(binary_data) ==
    IF IsOddLength(binary_data) THEN binary_data \o <<0>> ELSE binary_data

\* `binary_data[i: i + 2]`, i the i-th step of range(0, data_len, 2)
Chunk(data, i) == Slice(data, 2 * (i - 1), 2 * i)

\* the checksum taken over the padded data, pad byte included
ChecksumOfPaddedData(data, padded) == data

\* `binary_data[:-1] if padded else binary_data`
ChecksummedData(data, padded) ==
    IF padded THEN Slice(data, 0, Len(data) - 1) ELSE data

encode(wl0, binary_data, version, checksum, return_string, max_bytes) ==
    IF TooManyBytes(binary_data, max_bytes)
    THEN Result(wl0, HumanEncodingError("Data is too big"), FALSE, <<>>, <<>>)
    ELSE
    LET ld == lazily_load_wordlist(wl0, version)
        wl == ld.wordlist
        padded == IsOddLength(binary_data)
        data == PaddedData(binary_data)
        data_len == Len(data)
        chunks == [i \in 1..(data_len \div 2) |->
                      _chunk_to_word(wl, Chunk(data, i))]
        checksum_int == _crc32(ChecksummedData(data, padded))
        checksum_bytes == PackU32(checksum_int)
        encoded_output ==
            chunks
            \o (IF padded THEN <<PADDING_WORD>> ELSE <<>>)
            \o (IF checksum
                THEN <<CHECKSUM_WORD,
                       _chunk_to_word(wl, Slice(checksum_bytes, 0, 2)),
                       _chunk_to_word(wl, Slice(checksum_bytes, 2, 4))>>
                ELSE <<>>)
    IN  IF ld.raised # NoError
        THEN Result(wl, ld.raised, ld.imported, <<>>, <<>>)
        ELSE IF IndexErrorWord \in Range(encoded_output)
        THEN Result(wl, Raise("NameError", "name 'word' is not defined"),
                    ld.imported, <<>>, <<>>)
        ELSE IF return_string
        THEN [Result(wl, NoError, ld.imported, <<>>, <<>>)
                 EXCEPT !.text = JoinWords(encoded_output)]
        ELSE Result(wl, NoError, ld.imported, encoded_output, <<>>)

(***************************************************************************)
(* decode(words, version, max_words), words a list of tokens               *)
(***************************************************************************)
\* the chunks of the words, joined in order
JoinChunks(wl, ws) ==
    [k \in 1..(2 * Len(ws)) |->
        _word_to_chunk(wl, ws[(k + 1) \div 2])[((k - 1) % 2) + 1]]

\* the limit test off by one
AtLeastMaxWords(words, max_words) == Len(words) >= max_words

\* `len(words) > max_words`
TooManyWords(words, max_words) == Len(words) > max_words

\* the tokens taken as they are written
AsWritten(words) == words

\* `[str(w).lower() for w in words]`
LowerAll(words) == [i \in 1..Len(words) |-> Lower(words[i])]

\* a marker test that also takes a list of three tokens
HasChecksumFromThree(words) ==
    Len(words) >= 3 /\ words[Len(words) - 2] = CHECKSUM_WORD

\* `len(words) > 3 and words[-3] == CHECKSUM_WORD`, words lower-cased
HasChecksum(words) ==
    Len(words) > 3 /\ words[Len(words) - 2] = CHECKSUM_WORD

\* `checksum_words = words[-2:]`, or the empty list
ChecksumWords(words) ==
    IF HasChecksum(words) THEN Slice(words, Len(words) - 2, Len(words))
    ELSE <<>>

\* `words = words[:-3]` when a checksum was found
WithoutChecksum(words) ==
    IF HasChecksum(words) THEN Slice(words, 0, Len(words) - 3) ELSE words

\* `words[-1] == PADDING_WORD`, for a list that is not empty
IsPadded(words) == words[Len(words)] = PADDING_WORD

\* `words = words[:-1]` when the padding word was found
WithoutPadding(words) ==
    IF IsPadded(words) THEN Slice(words, 0, Len(words) - 1) ELSE words

decode(wl0, words_in, version, max_words) ==
    LET ld == lazily_load_wordlist(wl0, version)
        wl == ld.wordlist
        lowered == LowerAll(words_in)
        checksum_words == ChecksumWords(lowered)
        stripped == WithoutChecksum(lowered)
        m == Len(stripped)
        is_padded == IsPadded(stripped)
        words == WithoutPadding(stripped)
        joined == JoinChunks(wl, words)
        output == IF is_padded /\ Len(joined) > 0
                  THEN Slice(joined, 0, Len(joined) - 1) ELSE joined
        checksum_unpacked == UnpackU32(JoinChunks(wl, checksum_words))
        Fail(e) == Result(wl, e, ld.imported, <<>>, <<>>)
    IN  IF ld.raised # NoError THEN Fail(ld.raised)
        ELSE IF TooManyWords(words_in, max_words) THEN Fail(HumanEncodingError("Words are too big"))
        ELSE IF m = 0 THEN Fail(Raise("IndexError", "list index out of range"))
        ELSE IF \E w \in Range(words) : _word_to_chunk(wl, w) = <<>>
        THEN Fail(HumanEncodingError("Invalid word"))
        ELSE IF checksum_words # <<>>
                /\ \E w \in Range(checksum_words) : _word_to_chunk(wl, w) = <<>>
        THEN Fail(HumanEncodingError("Invalid word"))
        ELSE IF checksum_words # <<>> /\ checksum_unpacked # _crc32(output)
        THEN Fail(HumanEncodingError("Invalid CRC32 checksum"))
        ELSE Result(wl, NoError, ld.imported, <<>>, output)

(***************************************************************************)
(* The state.                                                              *)
(*   wordlist  the module global `wordlist` (encoder.py:51)                *)
(*   call      the last call made to the library and its arguments         *)
(*   res       what that call raised or returned                           *)
(*   stream    the tokens the last successful encode returned (the list,   *)
(*             or the string split at its spaces as decode does first),    *)
(*             with the payload they encode, as they travel to a decode    *)
(*   threads   for each of the threads that call encode at the same time,  *)
(*             the line it has reached and its local variables             *)
(***************************************************************************)
VARIABLES wordlist, call, res, stream, threads

vars == <<wordlist, call, res, stream, threads>>

Call(o, v, d, c, l, ws) ==
    [op |-> o, version |-> v, data |-> d, checksum |-> c, limit |-> l,
     words |-> ws, string |-> FALSE]
NoCall == Call("none", 0, <<>>, FALSE, 0, <<>>)

Outcome(r) ==
    [raised |-> r.raised, imported |-> r.imported, words |-> r.words,
     data |-> r.data, text |-> r.text]
NoOutcome == [raised |-> NoError, imported |-> FALSE, words |-> <<>>,
              data |-> <<>>, text |-> <<>>]

Stream(s, d, c, v, ws, f, p, b) ==
    [sent |-> s, data |-> d, checksum |-> c, version |-> v, words |-> ws,
     flipped |-> f, pos |-> p, bit |-> b]
NoStream == Stream(FALSE, <<>>, FALSE, 0, <<>>, FALSE, 0, 0)

\* the inputs
Payloads == UNION {[1..n -> ByteVals] : n \in 0..MaxLen}
TokenAlphabet == {PADDING_WORD, CHECKSUM_WORD, DictWord(0), OtherWord}
TokenLists == UNION {[1..n -> TokenAlphabet] : n \in 0..MaxTokens}
ByteLimits(b) == {Len(b) - 1, Len(b), DEFAULT_MAX_ENCODING_BYTES}
WordLimits(ws) == {Len(ws) - 1, Len(ws), DEFAULT_MAX_DECODING_WORDS}

\* the positions of a token list that are written in capitals: all of them,
\* the first, the last, or the place of the checksum marker
CaseMasks(ws) ==
    {m \in {1..Len(ws), {1}, {Len(ws)}, {Len(ws) - 2}} :
        m # {} /\ m \subseteq 1..Len(ws)}

Recased(ws, mask) ==
    [i \in 1..Len(ws) |-> IF i \in mask THEN Upper(ws[i]) ELSE ws[i]]

(***************************************************************************)
(* A thread inside encode(chunk, version, checksum=False,                  *)
(* return_string=False) of one chunk:                                      *)
(*   pc         the line it stands before: "idle" (outside), "test" (56),  *)
(*              "import" (60), "bind" (66), "validate" (67), "lookup"      *)
(*              (81, in _chunk_to_word), "return" (the call is over)       *)
(*   seen       the object `wordlist` named when the thread indexed it     *)
(*   validated  whether, at that moment, some thread had passed line 69    *)
(*              with that object                                           *)
(*   passed     the last object this thread found to be of the right size  *)
(***************************************************************************)
Threads == {1, 2}

ThreadChunks == {<<0, 0>>, <<255, 255>>}

Thread(pc, v, chunk, passed) ==
    [pc |-> pc, version |-> v, chunk |-> chunk, read |-> FALSE,
     seen |-> EmptyList, validated |-> FALSE, word |-> IndexErrorWord,
     raised |-> NoError, passed |-> passed]

Init ==
    /\ wordlist = EmptyList
    /\ call = NoCall
    /\ res = NoOutcome
    /\ stream = NoStream
    /\ threads = [t \in Threads |-> Thread("idle", 0, <<0, 0>>, EmptyList)]

\* the caller holds no result of a call: it is free to make the next one
Idle == call.op = "none"

\* lazily_load_wordlist(version=v), called directly
Load(v) ==
    LET r == lazily_load_wordlist(wordlist, v)
    IN  /\ Idle
        /\ wordlist' = r.wordlist
        /\ call' = Call("load", v, <<>>, FALSE, 0, <<>>)
        /\ res' = [raised |-> r.raised, imported |-> r.imported,
                   words |-> <<>>, data |-> <<>>, text |-> <<>>]
        /\ UNCHANGED <<stream, threads>>

\* encode(b, version=v, checksum=c, return_string=s, max_bytes=m)
Encode(b, v, c, s, m) ==
    LET r == encode(wordlist, b, v, c, s, m)
    IN  /\ Idle
        /\ ~stream.sent
        /\ wordlist' = r.wordlist
        /\ call' = [Call("encode", v, b, c, m, <<>>) EXCEPT !.string = s]
        /\ res' = Outcome(r)
        /\ stream' = IF r.raised = NoError
                     THEN Stream(TRUE, b, c, v,
                                 IF s THEN SplitWords(r.text) ELSE r.words,
                                 FALSE, 0, 0)
                     ELSE stream
        /\ UNCHANGED threads

\* decode(ws, version=v, max_words=n) of a token list written by hand
Decode(ws, v, n) ==
    LET r == decode(wordlist, ws, v, n)
    IN  /\ Idle
        /\ ~stream.sent
        /\ wordlist' = r.wordlist
        /\ call' = Call("decode", v, <<>>, FALSE, n, ws)
        /\ res' = Outcome(r)
        /\ UNCHANGED <<stream, threads>>

\* decode(ws, version=v, max_words=n) of the token list encode returned
DecodeStream(v, n) ==
    LET r == decode(wordlist, stream.words, v, n)
    IN  /\ Idle
        /\ stream.sent
        /\ wordlist' = r.wordlist
        /\ call' = Call("decode", v, <<>>, FALSE, n, stream.words)
        /\ res' = Outcome(r)
        /\ UNCHANGED <<stream, threads>>

\* decode(ws', version=v, max_words=n) where ws' is the token list encode
\* returned with the tokens at mask written in capitals
DecodeRecased(v, n, mask) ==
    LET ws == Recased(stream.words, mask)
        r == decode(wordlist, ws, v, n)
    IN  /\ Idle
        /\ stream.sent
        /\ wordlist' = r.wordlist
        /\ call' = Call("decode", v, <<>>, FALSE, n, ws)
        /\ res' = Outcome(r)
        /\ UNCHANGED <<stream, threads>>

\* the caller has looked at the result of its call and goes on; a token
\* list that was decoded is not decoded again
Return ==
    /\ ~Idle
    /\ call' = NoCall
    /\ res' = NoOutcome
    /\ stream' = IF call.op = "decode" THEN NoStream ELSE stream
    /\ UNCHANGED <<wordlist, threads>>

\* one bit of the index of the data token at pos is flipped on the way: the
\* token becomes the word the table holds at the flipped index
FlipBit(i, k) == IF BitOf(i, k) = 1 THEN i - Pow2(k) ELSE i + Pow2(k)

Corrupt(pos, bit) ==
    LET index == _bytes_to_int(Chunk(PaddedData(stream.data), pos))
    IN  /\ Idle
        /\ stream.sent
        /\ ~stream.flipped
        /\ pos \in 1..(Len(PaddedData(stream.data)) \div 2)
        /\ FlipBit(index, bit) < TableLen(wordlist)
        /\ stream' = [stream EXCEPT
                         !.words[pos] = TableWord(wordlist, FlipBit(index, bit)),
                         !.flipped = TRUE, !.pos = pos, !.bit = bit]
        /\ UNCHANGED <<wordlist, call, res, threads>>

\* the guards stand before the quantifiers so that no input is drawn for a
\* call the caller cannot make
Next ==
    \/ Idle /\ \E v \in Versions : Load(v)
    \/ Idle /\ ~stream.sent
            /\ \E b \in Payloads, v \in Versions, c \in BOOLEAN, s \in BOOLEAN :
                  \E m \in ByteLimits(b) : Encode(b, v, c, s, m)
    \/ Idle /\ ~stream.sent
            /\ \E ws \in TokenLists, v \in Versions :
                  \E n \in WordLimits(ws) : Decode(ws, v, n)
    \/ Idle /\ stream.sent
            /\ \E v \in Versions :
                  \E n \in WordLimits(stream.words) : DecodeStream(v, n)
    \/ Return

Spec == Init /\ [][Next]_vars

(***************************************************************************)
(* The codec over a channel that may flip one bit of a data token: encode  *)
(* and decode called with the default limits and a version whose word list *)
(* is valid.                                                               *)
(***************************************************************************)
ChannelNext ==
    \/ Idle /\ ~stream.sent
            /\ \E b \in Payloads, v \in ValidVersions, c \in BOOLEAN :
                  Encode(b, v, c, TRUE, DEFAULT_MAX_ENCODING_BYTES)
    \/ Idle /\ stream.sent /\ ~stream.flipped
            /\ \E pos \in 1..((MaxLen + 1) \div 2), bit \in 0..15 :
                  Corrupt(pos, bit)
    \/ Idle /\ stream.sent
            /\ \E v \in ValidVersions :
                  DecodeStream(v, DEFAULT_MAX_DECODING_WORDS)
    \/ Return

ChannelSpec == Init /\ [][ChannelNext]_vars

(***************************************************************************)
(* The codec with a writer who changes the letter case of tokens: encode   *)
(* with the default limit, then decode of its tokens with some of them in  *)
(* capitals, or decode of tokens written by hand, some in capitals.  Once  *)
(* encode has returned the cache is populated and decode's version is not  *)
(* looked at, so the stream is decoded with the version it was encoded     *)
(* with.                                                                   *)
(***************************************************************************)
CaseNext ==
    \/ Idle /\ ~stream.sent
            /\ \E b \in Payloads, v \in Versions, c \in BOOLEAN, s \in BOOLEAN :
                  Encode(b, v, c, s, DEFAULT_MAX_ENCODING_BYTES)
    \/ Idle /\ stream.sent
            /\ \E mask \in CaseMasks(stream.words) :
                  \E n \in WordLimits(stream.words) :
                      DecodeRecased(stream.version, n, mask)
    \/ Idle /\ ~stream.sent
            /\ \E ws \in TokenLists, v \in ValidVersions :
                  \E mask \in CaseMasks(ws) :
                      Decode(Recased(ws, mask), v, DEFAULT_MAX_DECODING_WORDS)
    \/ Return

CaseSpec == Init /\ [][CaseNext]_vars

(***************************************************************************)
(* Two threads of one process that call encode at the same time.  The      *)
(* interpreter may switch threads between any two lines, so each line of   *)
(* lazily_load_wordlist that reads or binds the global is a step.          *)
(***************************************************************************)
At(t, pc) == threads[t].pc = pc

Goto(t, pc) == threads' = [threads EXCEPT ![t].pc = pc]

ThreadRaise(t, e) ==
    threads' = [threads EXCEPT ![t].pc = "return", ![t].raised = e]

\* thread t calls encode(chunk, version=v, checksum=False, return_string=False)
ThreadCall(t, v, chunk) ==
    /\ At(t, "idle")
    /\ threads' = [threads EXCEPT ![t] = Thread("test", v, chunk, threads[t].passed)]
    /\ UNCHANGED <<wordlist, call, res, stream>>

\* `if wordlist: return`
ThreadTest(t) ==
    /\ At(t, "test")
    /\ Goto(t, IF CacheHit(wordlist) THEN "lookup" ELSE "import")
    /\ UNCHANGED <<wordlist, call, res, stream>>

\* importlib.import_module(...), HumanEncodingError when it raises
ThreadImport(t) ==
    /\ At(t, "import")
    /\ IF AssetKind(threads[t].version) = "missing"
       THEN ThreadRaise(t, HumanEncodingError("Invalid word list module"))
       ELSE Goto(t, "bind")
    /\ UNCHANGED <<wordlist, call, res, stream>>

\* `wordlist = getattr(wordlist_module, 'words', None)`
ThreadBind(t) ==
    /\ At(t, "bind")
    /\ wordlist' = IF AssetKind(threads[t].version) = "nowords" THEN None
                   ELSE WordsOf(threads[t].version)
    /\ Goto(t, "validate")
    /\ UNCHANGED <<call, res, stream>>

\* the tests of `wordlist` after the binding: they read the global, which
\* another thread may have bound since
ThreadValidate(t) ==
    /\ At(t, "validate")
    /\ IF ~Truthy(wordlist)
       THEN ThreadRaise(t, HumanEncodingError("Word list module has no words attribute"))
       ELSE IF TableLen(wordlist) # WORDLIST_SIZE
       THEN ThreadRaise(t, Raise("NameError", "name 'words' is not defined"))
       ELSE threads' = [threads EXCEPT ![t].pc = "lookup", ![t].passed = wordlist]
    /\ UNCHANGED <<wordlist, call, res, stream>>

\* `wordlist[_bytes_to_int(chunk)]` in _chunk_to_word, NameError from the
\* handler of its IndexError
ThreadLookup(t) ==
    LET word == _chunk_to_word(wordlist, threads[t].chunk)
    IN  /\ At(t, "lookup")
        /\ threads' = [threads EXCEPT
                          ![t].pc = "return",
                          ![t].read = TRUE,
                          ![t].seen = wordlist,
                          ![t].validated = \E u \in Threads : threads[u].passed = wordlist,
                          ![t].word = word,
                          ![t].raised = IF word = IndexErrorWord
                                        THEN Raise("NameError", "name 'word' is not defined")
                                        ELSE NoError]
        /\ UNCHANGED <<wordlist, call, res, stream>>

\* the call of thread t is over
ThreadReturn(t) ==
    /\ At(t, "return")
    /\ threads' = [threads EXCEPT ![t] = Thread("idle", 0, <<0, 0>>, threads[t].passed)]
    /\ UNCHANGED <<wordlist, call, res, stream>>

ThreadsNext ==
    \E t \in Threads :
        \/ At(t, "idle") /\ \E v \in Versions, chunk \in ThreadChunks : ThreadCall(t, v, chunk)
        \/ ThreadTest(t)
        \/ ThreadImport(t)
        \/ ThreadBind(t)
        \/ ThreadValidate(t)
        \/ ThreadLookup(t)
        \/ ThreadReturn(t)

ThreadsSpec == Init /\ [][ThreadsNext]_vars


(***************************************************************************)
(* The error kinds of the library, by the raise statement that reports     *)
(* them.                                                                   *)
(***************************************************************************)
InvalidWordList(e) ==
    e \in {HumanEncodingError("Invalid word list module"),
           HumanEncodingError("Word list module has no words attribute"),
           HumanEncodingError("Word list is in invalid size")}
PayloadTooLarge(e) == e = HumanEncodingError("Data is too big")
TooManyTokens(e) == e = HumanEncodingError("Words are too big")
InvalidWord(e) == e = HumanEncodingError("Invalid word")
ChecksumMismatch(e) == e = HumanEncodingError("Invalid CRC32 checksum")

\* the call ended inside lazily_load_wordlist
LoadRaised(e) ==
    InvalidWordList(e) \/ e = Raise("NameError", "name 'words' is not defined")

\* the tokens decode looks up as data, once the markers are stripped
DataWords(ws) ==
    IF WithoutChecksum(LowerAll(ws)) = <<>> THEN <<>>
    ELSE WithoutPadding(WithoutChecksum(LowerAll(ws)))

\* the last call was a decode of the token list in the stream as it is now
DecodedStream ==
    /\ call.op = "decode"
    /\ stream.sent
    /\ call.words = stream.words

(***************************************************************************)
(* C1.  Round trip: decoding, with the default limit and the same valid    *)
(* version, the token list encode returned for a payload gives back the    *)
(* payload, for every payload length from 0 and with or without checksum.  *)
(* Fails: encode(b'') returns no token and decode of no token raises       *)
(* IndexError at words[-1].                                                *)
(***************************************************************************)
RoundTrip ==
    ( /\ DecodedStream
      /\ ~stream.flipped
      /\ stream.version \in ValidVersions
      /\ call.version = stream.version
      /\ wordlist = WordsOf(stream.version)
      /\ call.limit = DEFAULT_MAX_DECODING_WORDS )
    => (res.raised = NoError /\ res.data = stream.data)

(***************************************************************************)
(* C2.  An encode or decode call with a valid version v that returns has   *)
(* mapped through the word list of version v.  Fails: the cache is one     *)
(* global, tested for truth only, so whatever list was loaded first serves *)
(* every later version.                                                    *)
(***************************************************************************)
VersionSelectsTable ==
    ( /\ call.op \in {"encode", "decode"}
      /\ call.version \in ValidVersions
      /\ res.raised = NoError )
    => wordlist = WordsOf(call.version)

(***************************************************************************)
(* C3.  The cached word list is absent (empty) or a list of exactly 65536  *)
(* entries.  Fails: the global is bound to the module's words before the   *)
(* size is checked, so a list of the wrong size stays cached.              *)
(***************************************************************************)
CacheAbsentOrValidated ==
    ~Truthy(wordlist) \/ TableLen(wordlist) = WORDLIST_SIZE

(***************************************************************************)
(* C4.  Every load of a version whose asset is missing, malformed, of the  *)
(* wrong size or holds a duplicate fails with the invalid word list error. *)
(* Fails: a populated cache returns at once, a wrong size raises NameError *)
(* and duplicates are never looked for.                                    *)
(***************************************************************************)
BadAssetLoadFails ==
    (call.op = "load" /\ call.version \notin ValidVersions)
    => InvalidWordList(res.raised)

PadBitFlipped ==
    /\ stream.flipped
    /\ Len(stream.data) % 2 = 1
    /\ stream.pos = (Len(stream.data) + 1) \div 2
    /\ stream.bit >= 8

ReturnedTokens == IF call.string THEN SplitWords(res.text) ELSE res.words

(***************************************************************************)
(* C6.  Padding: the tokens encode returns are the data words, one per     *)
(* chunk, then the padding word exactly when the payload length is odd,    *)
(* then the three checksum tokens exactly when a checksum is asked for.    *)
(***************************************************************************)
PaddingCorrect ==
    (call.op = "encode" /\ res.raised = NoError)
    => LET odd == Len(call.data) % 2 = 1
           k == (Len(call.data) + 1) \div 2
           tail == Slice(ReturnedTokens, k, Len(ReturnedTokens))
       IN  /\ Len(ReturnedTokens) >= k
           /\ Len(tail) = (IF odd THEN 1 ELSE 0) + (IF call.checksum THEN 3 ELSE 0)
           /\ odd => tail[1] = PADDING_WORD
           /\ (odd /\ call.checksum) => tail[2] = CHECKSUM_WORD
           /\ (~odd /\ call.checksum) => tail[1] = CHECKSUM_WORD

OddPayloadPadded ==
    /\ call.op = "encode"
    /\ res.raised = NoError
    /\ call.checksum
    /\ Len(call.data) = 3
    /\ ReturnedTokens[3] = PADDING_WORD
    /\ Len(ReturnedTokens) = 6

EmptyDecodesToEmpty ==
    ( /\ call.op = "decode"
      /\ ~LoadRaised(res.raised)
      /\ Len(call.words) <= call.limit
      /\ DataWords(call.words) = <<>> )
    => \/ res.raised = NoError /\ res.data = <<>>
       \/ /\ ChecksumWords(LowerAll(call.words)) # <<>>
          /\ ChecksumMismatch(res.raised) \/ InvalidWord(res.raised)

(***************************************************************************)
(* C9.  Once the cache is populated no call reads a word list module       *)
(* again and no step changes the cached list.                              *)
(***************************************************************************)
LoadIdempotent ==
    [][Truthy(wordlist) => (wordlist' = wordlist /\ ~res'.imported)]_vars

SecondLoadServedFromCache ==
    /\ call.op = "load"
    /\ call.version = wordlist.version
    /\ Truthy(wordlist)
    /\ res.raised = NoError
    /\ ~res.imported

(***************************************************************************)
(* C10.  A decode within the size limit whose data tokens or checksum      *)
(* words include one that is not in the active word list fails with the    *)
(* invalid word error, checksum section or not.                            *)
(***************************************************************************)
InvalidWordPrecedes ==
    ( /\ call.op = "decode"
      /\ ~LoadRaised(res.raised)
      /\ Len(call.words) <= call.limit
      /\ \E w \in Range(DataWords(call.words))
                    \cup Range(ChecksumWords(LowerAll(call.words))) :
            IndexOf(wordlist, w) < 0 )
    => InvalidWord(res.raised)

InvalidWordWithChecksum ==
    /\ call.op = "decode"
    /\ call.words = <<OtherWord, CHECKSUM_WORD, DictWord(0), DictWord(0)>>
    /\ wordlist = WordsOf(DEFAULT_WORDLIST_VERSION)
    /\ InvalidWord(res.raised)

(***************************************************************************)
(* C11.  A decode that captured checksum words, all of whose tokens are in *)
(* the word list, returns a payload only when the 32-bit value of the two  *)
(* checksum words is the CRC32 of the payload it returns, and otherwise    *)
(* fails with the dedicated checksum error class.  Fails: the mismatch is  *)
(* raised as the base HumanEncodingError; ChecksumError is never raised.   *)
(***************************************************************************)
ChecksumVerified ==
    /\ call.op = "decode"
    /\ ~LoadRaised(res.raised)
    /\ Len(call.words) <= call.limit
    /\ ChecksumWords(LowerAll(call.words)) # <<>>
    /\ \A w \in Range(DataWords(call.words))
                   \cup Range(ChecksumWords(LowerAll(call.words))) :
          IndexOf(wordlist, w) >= 0

ChecksumErrorIsDedicated ==
    ChecksumVerified
    => /\ res.raised = NoError
             => UnpackU32(JoinChunks(wordlist,
                                     ChecksumWords(LowerAll(call.words))))
                   = _crc32(res.data)
       /\ res.raised # NoError
             => res.raised = ChecksumError("Invalid CRC32 checksum")

(***************************************************************************)
(* C12.  Reserved texts are recognised by position only.  In a decode that *)
(* got past the load and the size limit, with n > 0 tokens: 'check' is the *)
(* marker only as token n-2 of more than 3; 'null' is the padding only as  *)
(* the last token left once the checksum tokens are dropped; every token   *)
(* before that, whatever its text, and the two checksum words are looked   *)
(* up in the word list: the call fails with the invalid word error exactly *)
(* when one of them is not there, and a payload that is returned holds, in *)
(* order, the two bytes of each data token's index, less the pad byte.     *)
(***************************************************************************)
PositionalMarkers ==
    (call.op = "decode" /\ ~LoadRaised(res.raised)
        /\ Len(call.words) > 0 /\ Len(call.words) <= call.limit)
    => LET n == Len(call.words)
           ws == [i \in 1..n |-> Lower(call.words[i])]
           marker == n > 3 /\ ws[n - 2] = CHECKSUM_WORD
           e == IF marker THEN n - 3 ELSE n
           pad == ws[e] = PADDING_WORD
           d == IF pad THEN e - 1 ELSE e
           looked == (1..d) \cup (IF marker THEN {n - 1, n} ELSE {})
       IN  /\ InvalidWord(res.raised)
                 <=> \E i \in looked : IndexOf(wordlist, ws[i]) < 0
           /\ res.raised = NoError
                 => /\ Len(res.data) = 2 * d - (IF pad /\ d > 0 THEN 1 ELSE 0)
                    /\ \A k \in 1..Len(res.data) :
                          res.data[k] =
                             IF k % 2 = 1
                             THEN IndexOf(wordlist, ws[(k + 1) \div 2]) % 256
                             ELSE IndexOf(wordlist, ws[k \div 2]) \div 256

ReservedTextsAsData ==
    /\ call.op = "decode"
    /\ call.words = <<CHECKSUM_WORD, PADDING_WORD, PADDING_WORD>>
    /\ wordlist = WordsOf(6)
    /\ res.raised = NoError
    /\ res.data = <<0, 0, 1>>

(***************************************************************************)
(* C13.  The tokens encode returns are the reference layout: token i is    *)
(* the word at index b[2i] + 256 * b[2i+1] (a missing last byte counts 0), *)
(* then 'null' iff len(b) is odd, then, iff a checksum is asked for,       *)
(* 'check' and the words at crc mod 2^16 and crc div 2^16, crc the CRC32   *)
(* of b without the pad byte; the string form is these tokens with one     *)
(* space between neighbours.  A payload within max_bytes is encoded        *)
(* whenever the active word list has 65536 entries.                        *)
(***************************************************************************)
ReferenceTokens(wl, b, checksum) ==
    LET n == Len(b)
        byte(j) == IF j <= n THEN b[j] ELSE 0
        crc == _crc32(b)
        low == SumPow2(crc \cap 0..15)
        high == SumPow2({i - 16 : i \in crc \cap 16..31})
    IN  [i \in 1..((n + 1) \div 2) |->
            TableWord(wl, byte(2 * i - 1) + 256 * byte(2 * i))]
        \o (IF n % 2 = 1 THEN <<PADDING_WORD>> ELSE <<>>)
        \o (IF checksum
            THEN <<CHECKSUM_WORD, TableWord(wl, low), TableWord(wl, high)>>
            ELSE <<>>)

EncodeLayout ==
    /\ ( /\ call.op = "encode"
         /\ Len(call.data) <= call.limit
         /\ TableLen(wordlist) = WORDLIST_SIZE )
       => res.raised = NoError
    /\ (call.op = "encode" /\ res.raised = NoError)
       => LET ref == ReferenceTokens(wordlist, call.data, call.checksum)
          IN  IF call.string
              THEN /\ res.words = <<>>
                   /\ Len(res.text) = (IF ref = <<>> THEN 0 ELSE 2 * Len(ref) - 1)
                   /\ \A i \in 1..Len(ref) : res.text[2 * i - 1] = ref[i]
                   /\ \A i \in 1..(Len(ref) - 1) : res.text[2 * i] = Space
              ELSE res.words = ref /\ res.text = <<>>

OddChecksummedString ==
    /\ call.op = "encode"
    /\ call.string
    /\ call.checksum
    /\ call.data = <<255, 0, 255>>
    /\ res.raised = NoError
    /\ Len(res.text) = 11
    /\ res.text[5] = PADDING_WORD

(***************************************************************************)
(* C14.  With two threads calling encode at the same time, a thread that   *)
(* has indexed the word list indexed a list of 65536 entries that some     *)
(* thread had already found to be of the right size.  Fails: the global is *)
(* bound at line 66, before the tests of lines 67-71, and nothing keeps a  *)
(* second thread from finding it populated at line 56 in between.          *)
(***************************************************************************)
ThreadsReadValidatedTable ==
    \A t \in Threads :
        threads[t].read
        => /\ threads[t].validated
           /\ TableLen(threads[t].seen) = WORDLIST_SIZE

(***************************************************************************)
(* C15.  Decode is case-insensitive: every decode call has the outcome,    *)
(* bytes or error, and leaves the word list binding that the same call has *)
(* on the tokens written in lower case.                                    *)
(***************************************************************************)
LowerCased(ws) == [i \in 1..Len(ws) |-> Word(ws[i].lex, ws[i].n, FALSE)]

DecodeIgnoresCase ==
    [][ call'.op = "decode"
        => LET r == decode(wordlist, LowerCased(call'.words), call'.version,
                           call'.limit)
           IN  res' = Outcome(r) /\ wordlist' = r.wordlist ]_vars

CapitalsDecoded ==
    /\ call.op = "decode"
    /\ stream.sent
    /\ stream.checksum
    /\ stream.data = <<255, 0, 255>>
    /\ call.words = [i \in 1..Len(stream.words) |-> Upper(stream.words[i])]
    /\ res.raised = NoError
    /\ res.data = stream.data

=============================================================================
